---------------------------- MODULE Spec2Model ----------------------------
(***************************************************************************)
(* F1 championship simulator: the calculation engine (js/engine.js), the    *)
(* winning-scenario search and grouping (js/scenarios.js) and the manual   *)
(* simulation table of the page (js/app.js).                               *)
(***************************************************************************)
EXTENDS Integers, Sequences, FiniteSets, TLC

VARIABLES roster, call, tbody, championSummary

vars == <<roster, call, tbody, championSummary>>

(***************************************************************************)
(* Values                                                                  *)
(***************************************************************************)

\* JavaScript null for finishingPos ("or null for no points"); an integer
\* outside every modelled finishing value.
Null == -99

\* Finishing values tried on calculateDriverResult: Null and the integers
\* -BelowRange .. 10 + AboveRange.
BelowRange == 2
AboveRange == 2

Finishes == {Null} \cup ((0 - BelowRange) .. (10 + AboveRange))

\* data.js: RACE_POINTS, the points table indexed by finishing position.
RACE_POINTS == [p \in 1..10 |->
                  CASE p = 1 -> 25 [] p = 2 -> 18 [] p = 3 -> 15
                    [] p = 4 -> 12 [] p = 5 -> 10 [] p = 6 -> 8
                    [] p = 7 -> 6  [] p = 8 -> 4  [] p = 9 -> 2
                    [] p = 10 -> 1]

\* data.js: the title contenders of BASE_DRIVERS, in roster order.
ContenderIds == <<"norris", "verstappen", "piastri">>
ContenderNames == <<"Lando Norris", "Max Verstappen", "Oscar Piastri">>

\* Pre-race totals tried for a contender: points 0, 7 (a gap that race points
\* can close exactly) or 26 (a gap that one race cannot close), wins
\* 0..MaxWins, one podium more than wins.
MaxWins == 0
PointsChoices == {0, 7, 26}

BaseDriver(i, pts, w) ==
  [ id |-> ContenderIds[i], name |-> ContenderNames[i],
    points |-> pts, wins |-> w, podiums |-> w + 1 ]

BaseDrivers(i) == { BaseDriver(i, pts, w) : pts \in PointsChoices, w \in 0..MaxWins }

Rosters == { <<n, v, p>> : n \in BaseDrivers(1), v \in BaseDrivers(2),
                           p \in BaseDrivers(3) }

DefaultRoster == << BaseDriver(1, 7, 0), BaseDriver(2, 7, 0), BaseDriver(3, 0, 0) >>

(***************************************************************************)
(* Strings: String.prototype.localeCompare on names made of ASCII letters  *)
(* and spaces.  Primary weights first (space before letters, case folded), *)
(* then case as the tertiary difference (lower case first).                *)
(***************************************************************************)
LowerChars == <<"a","b","c","d","e","f","g","h","i","j","k","l","m",
                "n","o","p","q","r","s","t","u","v","w","x","y","z">>
UpperChars == <<"A","B","C","D","E","F","G","H","I","J","K","L","M",
                "N","O","P","Q","R","S","T","U","V","W","X","Y","Z">>

IndexIn(chars, c) ==
  IF \E i \in 1..Len(chars) : chars[i] = c
    THEN CHOOSE i \in 1..Len(chars) : chars[i] = c
    ELSE 0

\* Collation weight of one character.  Level 1 (primary): the letter, case
\* folded, a space before every letter.  Level 3 (tertiary): lower case
\* before upper case.
Weight(level, c) ==
  IF level = 1
    THEN IF IndexIn(LowerChars, c) > 0 THEN IndexIn(LowerChars, c)
         ELSE IndexIn(UpperChars, c)
    ELSE IF IndexIn(UpperChars, c) > 0 THEN 1 ELSE 0

RECURSIVE CompareAt(_, _, _)
CompareAt(level, a, b) ==
  IF Len(a) = 0 /\ Len(b) = 0 THEN 0
  ELSE IF Len(a) = 0 THEN -1
  ELSE IF Len(b) = 0 THEN 1
  ELSE IF Weight(level, Head(a)) < Weight(level, Head(b)) THEN -1
  ELSE IF Weight(level, Head(a)) > Weight(level, Head(b)) THEN 1
  ELSE CompareAt(level, Tail(a), Tail(b))

localeCompare(a, b) ==
  IF CompareAt(1, a, b) # 0 THEN CompareAt(1, a, b) ELSE CompareAt(3, a, b)

\* String.prototype.toUpperCase on one character.
toUpperCase(c) ==
  IF IndexIn(LowerChars, c) > 0 THEN UpperChars[IndexIn(LowerChars, c)] ELSE c

(***************************************************************************)
(* engine.js                                                               *)
(***************************************************************************)

\* racePointsOf with the upper bound of the scoring zone off by one.
racePointsOfNoTenth(finishingPos) ==
  IF finishingPos # Null /\ finishingPos < 10 /\ finishingPos >= 1
    THEN RACE_POINTS[finishingPos]
    ELSE 0

racePointsOf(finishingPos) ==
  IF finishingPos # Null /\ finishingPos <= 10 /\ finishingPos >= 1
    THEN RACE_POINTS[finishingPos]
    ELSE 0

\* calculateDriverResult with the race points taken off the total.
calculateDriverResultPointsDeducted(baseDriver, finishingPos) ==
  [ id           |-> baseDriver.id,
    name         |-> baseDriver.name,
    points       |-> baseDriver.points,
    wins         |-> baseDriver.wins,
    podiums      |-> baseDriver.podiums,
    finishingPos |-> finishingPos,
    racePoints   |-> racePointsOf(finishingPos),
    finalPoints  |-> baseDriver.points - racePointsOf(finishingPos),
    finalWins    |-> baseDriver.wins + (IF finishingPos = 1 THEN 1 ELSE 0),
    finalPodiums |-> baseDriver.podiums
                       + (IF finishingPos # Null /\ finishingPos <= 3
                            THEN 1 ELSE 0) ]

calculateDriverResult(baseDriver, finishingPos) ==
  [ id           |-> baseDriver.id,
    name         |-> baseDriver.name,
    points       |-> baseDriver.points,
    wins         |-> baseDriver.wins,
    podiums      |-> baseDriver.podiums,
    finishingPos |-> finishingPos,
    racePoints   |-> racePointsOf(finishingPos),
    finalPoints  |-> baseDriver.points + racePointsOf(finishingPos),
    finalWins    |-> baseDriver.wins + (IF finishingPos = 1 THEN 1 ELSE 0),
    finalPodiums |-> baseDriver.podiums
                       + (IF finishingPos # Null /\ finishingPos <= 3
                            THEN 1 ELSE 0) ]

\* compareStandings without the name fallback.
compareStandingsNoName(a, b) ==
  IF b.finalPoints # a.finalPoints THEN b.finalPoints - a.finalPoints
  ELSE IF b.finalWins # a.finalWins THEN b.finalWins - a.finalWins
  ELSE IF b.finalPodiums # a.finalPodiums THEN b.finalPodiums - a.finalPodiums
  ELSE 0

\* The comparator handed to Array.prototype.sort: negative when a goes first.
compareStandings(a, b) ==
  IF b.finalPoints # a.finalPoints THEN b.finalPoints - a.finalPoints
  ELSE IF b.finalWins # a.finalWins THEN b.finalWins - a.finalWins
  ELSE IF b.finalPodiums # a.finalPodiums THEN b.finalPodiums - a.finalPodiums
  ELSE localeCompare(a.name, b.name)

\* Array.prototype.sort with the comparator: a stable insertion sort.
RECURSIVE InsertStanding(_, _)
InsertStanding(sorted, x) ==
  IF sorted = <<>> THEN <<x>>
  ELSE IF compareStandings(x, sorted[Len(sorted)]) < 0
    THEN Append(InsertStanding(SubSeq(sorted, 1, Len(sorted) - 1), x),
                sorted[Len(sorted)])
    ELSE Append(sorted, x)

\* return [...results].sort(...)
RECURSIVE sortStandings(_)
sortStandings(results) ==
  IF results = <<>> THEN <<>>
  ELSE InsertStanding(sortStandings(SubSeq(results, 1, Len(results) - 1)),
                      results[Len(results)])

\* undefined / null for a missing array entry.
Absent == <<>>

\* determineChampion with the tie decided on points alone.
determineChampionPointsOnly(sortedResults) ==
  LET champion == IF Len(sortedResults) >= 1 THEN sortedResults[1] ELSE Absent
  IN  IF Len(sortedResults) < 2
        THEN [champion |-> champion, second |-> Absent, isTie |-> FALSE]
        ELSE LET second == sortedResults[2]
             IN  [champion |-> champion, second |-> second,
                  isTie |-> champion.finalPoints = second.finalPoints]

\* determineChampion with the podiums left out of the tie.
determineChampionNoPodiums(sortedResults) ==
  LET champion == IF Len(sortedResults) >= 1 THEN sortedResults[1] ELSE Absent
  IN  IF Len(sortedResults) < 2
        THEN [champion |-> champion, second |-> Absent, isTie |-> FALSE]
        ELSE LET second == sortedResults[2]
             IN  [champion |-> champion, second |-> second,
                  isTie |-> /\ champion.finalPoints = second.finalPoints
                            /\ champion.finalWins = second.finalWins]

determineChampion(sortedResults) ==
  LET champion == IF Len(sortedResults) >= 1 THEN sortedResults[1] ELSE Absent
  IN  IF Len(sortedResults) < 2
        THEN [champion |-> champion, second |-> Absent, isTie |-> FALSE]
        ELSE LET second == sortedResults[2]
             IN  [champion |-> champion, second |-> second,
                  isTie |-> /\ champion.finalPoints = second.finalPoints
                            /\ champion.finalWins = second.finalWins
                            /\ champion.finalPodiums = second.finalPodiums]

(***************************************************************************)
(* scenarios.js                                                            *)
(***************************************************************************)

\* const contenders = BASE_DRIVERS.filter((d) => d.isContender);
\* const [norris, verstappen, piastri] = contenders;
norris == roster[1]
verstappen == roster[2]
piastri == roster[3]

MAX_POS == 11

\* Pushed with a tied champion counted as a winner.
PushedWithTies(targetWinnerId, posN, posV, posP) ==
  LET resN == calculateDriverResult(norris, IF posN > 10 THEN Null ELSE posN)
      resV == calculateDriverResult(verstappen, IF posV > 10 THEN Null ELSE posV)
      resP == calculateDriverResult(piastri, IF posP > 10 THEN Null ELSE posP)
      outcome == determineChampion(sortStandings(<<resN, resV, resP>>))
  IN  IF outcome.champion.id = targetWinnerId
        THEN << [norrisPos |-> posN, verstappenPos |-> posV,
                 piastriPos |-> posP] >>
        ELSE <<>>

\* The body of the innermost loop: score, rank and classify one combination;
\* what the iteration pushes on winningScenarios (nothing, or one scenario).
Pushed(targetWinnerId, posN, posV, posP) ==
  LET resN == calculateDriverResult(norris, IF posN > 10 THEN Null ELSE posN)
      resV == calculateDriverResult(verstappen, IF posV > 10 THEN Null ELSE posV)
      resP == calculateDriverResult(piastri, IF posP > 10 THEN Null ELSE posP)
      miniStandings == sortStandings(<<resN, resV, resP>>)
      outcome == determineChampion(miniStandings)
  IN  IF outcome.champion.id = targetWinnerId /\ ~outcome.isTie
        THEN << [norrisPos |-> posN, verstappenPos |-> posV,
                 piastriPos |-> posP] >>
        ELSE <<>>

\* LoopP without the check against Verstappen's position.
RECURSIVE LoopPNoVerstappenCheck(_, _, _, _)
LoopPNoVerstappenCheck(targetWinnerId, posN, posV, posP) ==
  IF posP > MAX_POS THEN <<>>
  ELSE IF posP <= 10 /\ posN <= 10 /\ posN = posP
    THEN LoopPNoVerstappenCheck(targetWinnerId, posN, posV, posP + 1)
    ELSE Pushed(targetWinnerId, posN, posV, posP)
           \o LoopPNoVerstappenCheck(targetWinnerId, posN, posV, posP + 1)

\* for (let posP = 1; posP <= MAX_POS; posP++): the pushes of the iterations
\* posP, posP + 1, ... in order.
RECURSIVE LoopP(_, _, _, _)
LoopP(targetWinnerId, posN, posV, posP) ==
  IF posP > MAX_POS THEN <<>>
  ELSE IF posP <= 10 /\ ((posN <= 10 /\ posN = posP) \/ (posV <= 10 /\ posV = posP))
    THEN LoopP(targetWinnerId, posN, posV, posP + 1)
    ELSE Pushed(targetWinnerId, posN, posV, posP)
           \o LoopP(targetWinnerId, posN, posV, posP + 1)

\* LoopV with the collision rule applied to the no-points value as well.
RECURSIVE LoopVNoSharedEleven(_, _, _)
LoopVNoSharedEleven(targetWinnerId, posN, posV) ==
  IF posV > MAX_POS THEN <<>>
  ELSE IF posN = posV
    THEN LoopVNoSharedEleven(targetWinnerId, posN, posV + 1)
    ELSE LoopP(targetWinnerId, posN, posV, 1)
           \o LoopVNoSharedEleven(targetWinnerId, posN, posV + 1)

\* for (let posV = 1; posV <= MAX_POS; posV++)
RECURSIVE LoopV(_, _, _)
LoopV(targetWinnerId, posN, posV) ==
  IF posV > MAX_POS THEN <<>>
  ELSE IF posN <= 10 /\ posV <= 10 /\ posN = posV
    THEN LoopV(targetWinnerId, posN, posV + 1)
    ELSE LoopP(targetWinnerId, posN, posV, 1)
           \o LoopV(targetWinnerId, posN, posV + 1)

\* LoopN counting down from MAX_POS.
RECURSIVE LoopNDescending(_, _)
LoopNDescending(targetWinnerId, posN) ==
  IF posN > MAX_POS THEN <<>>
  ELSE LoopNDescending(targetWinnerId, posN + 1) \o LoopV(targetWinnerId, posN, 1)

\* for (let posN = 1; posN <= MAX_POS; posN++)
RECURSIVE LoopN(_, _)
LoopN(targetWinnerId, posN) ==
  IF posN > MAX_POS THEN <<>>
  ELSE LoopV(targetWinnerId, posN, 1) \o LoopN(targetWinnerId, posN + 1)

findWinningScenarios(targetWinnerId) == LoopN(targetWinnerId, 1)

\* sc[id + "Pos"]; undefined when the scenario has no such key.
PosKey(id) == id \o "Pos"

HasPos(sc, id) == PosKey(id) \in DOMAIN sc

\* The keys of byTargetPos: the target positions occurring in the scenarios.
TargetPositions(targetId, scenarios) ==
  { scenarios[k][PosKey(targetId)] : k \in 1..Len(scenarios) }

\* Bucket with every scenario filed under every target position.
BucketOfAnyPosition(targetId, scenarios, pos) == scenarios

\* byTargetPos[pos]: the scenarios of one target position, in list order.
Bucket(targetId, scenarios, pos) ==
  SelectSeq(scenarios, LAMBDA sc : sc[PosKey(targetId)] = pos)

\* Object.keys on integer keys: ascending numeric order.
RECURSIVE ObjectKeys(_)
ObjectKeys(keys) ==
  IF keys = {} THEN <<>>
  ELSE LET least == CHOOSE k \in keys : \A other \in keys : k <= other
       IN  <<least>> \o ObjectKeys(keys \ {least})

\* The comparator with its operands exchanged.
comparePositionsReversed(a, b) == b - a

\* (a, b) => a - b
comparePositions(a, b) == a - b

\* Array.prototype.sort with the comparator: a stable insertion sort.
RECURSIVE InsertPosition(_, _)
InsertPosition(sorted, x) ==
  IF sorted = <<>> THEN <<x>>
  ELSE IF comparePositions(x, sorted[Len(sorted)]) < 0
    THEN Append(InsertPosition(SubSeq(sorted, 1, Len(sorted) - 1), x),
                sorted[Len(sorted)])
    ELSE Append(sorted, x)

RECURSIVE SortPositions(_)
SortPositions(keys) ==
  IF keys = <<>> THEN <<>>
  ELSE InsertPosition(SortPositions(SubSeq(keys, 1, Len(keys) - 1)),
                      keys[Len(keys)])

\* pos > 10 ? "No Points" : "P" + pos
DisplayPos(pos) == IF pos > 10 THEN "No Points" ELSE "P" \o ToString(pos)

\* ["norris", "verstappen", "piastri"].filter((id) => id !== targetId)
OtherIds(targetId) == SelectSeq(ContenderIds, LAMBDA id : id # targetId)

\* MinPos with the comparison turned round (p > minPos[id]).
MinPosTurnedRound(scenarios, id) ==
  LET higher == { p \in { scenarios[k][PosKey(id)] :
                            k \in { j \in 1..Len(scenarios) : HasPos(scenarios[j], id) } } :
                  p > 99 }
  IN  IF higher = {} THEN 99
      ELSE CHOOSE most \in higher : \A other \in higher : most >= other

\* minPos[id] after the forEach over the scenarios: 99, replaced by every
\* position p of id with p < minPos[id]; a scenario without the key gives
\* undefined, and undefined < minPos[id] is false.
MinPos(scenarios, id) ==
  LET lower == { p \in { scenarios[k][PosKey(id)] :
                           k \in { j \in 1..Len(scenarios) : HasPos(scenarios[j], id) } } :
                 p < 99 }
  IN  IF lower = {} THEN 99
      ELSE CHOOSE least \in lower : \A other \in lower : least <= other

\* id.charAt(0).toUpperCase() + id.slice(1)
Capitalized(id) == IF id = "" THEN "" ELSE toUpperCase(Head(id)) \o Tail(id)

ConstraintPart(scenarios, id) ==
  Capitalized(id) \o " finishes " \o DisplayPos(MinPos(scenarios, id)) \o " or lower"

\* Array.prototype.join
RECURSIVE Join(_, _)
Join(parts, separator) ==
  IF parts = <<>> THEN ""
  ELSE IF Len(parts) = 1 THEN parts[1]
  ELSE parts[1] \o separator \o Join(Tail(parts), separator)

summarizeConstraints(scenarios, otherIds) ==
  Join([k \in 1..Len(otherIds) |-> ConstraintPart(scenarios, otherIds[k])],
       " AND <br>")

groupScenarios(targetId, scenarios) ==
  LET positions == SortPositions(ObjectKeys(TargetPositions(targetId, scenarios)))
  IN  [ k \in 1..Len(positions) |->
          [ position |-> DisplayPos(positions[k]),
            description |->
              summarizeConstraints(Bucket(targetId, scenarios, positions[k]),
                                   OtherIds(targetId)) ] ]

(***************************************************************************)
(* app.js: the manual simulation table                                     *)
(***************************************************************************)

\* The option values of a position select: "" (No points / DNF) and "1".."10".
Options == {""} \cup { ToString(pos) : pos \in 1..10 }

\* A fresh select of a driver: the first option, "", is the selected one.
createPositionSelect(driverIdx) == [ idx |-> driverIdx, value |-> "" ]

\* parseInt(value, 10) of a non-empty option value.
parseInt(value) == CHOOSE pos \in 1..10 : ToString(pos) = value

\* The rows buildTable puts in tbody, one per contender in roster order: the
\* rank "-", the computed cells at the pre-race totals and a fresh select.
\* (The name, team and pre-race cells of a row follow from driverIndex and
\* never change.)
buildTable ==
  [ idx \in 1..3 |->
      [ driverIndex |-> idx,
        championRow |-> FALSE,
        rank        |-> "-",
        racePts     |-> "0",
        finalPts    |-> ToString(roster[idx].points),
        finalWins   |-> ToString(roster[idx].wins),
        finalPods   |-> ToString(roster[idx].podiums),
        select      |-> createPositionSelect(idx) ] ]

\* championSummary.innerHTML = ""
NoSummary == [ badge |-> "" ]

\* init() at page load: buildTable().
PageLoaded == tbody = buildTable /\ championSummary = NoSummary

\* handlePositionChange with the changed select left out of usedValues too.
handlePositionChangeForgetsChanged(rows, changedSelect) ==
  LET newValue == rows[changedSelect].select.value
      conflicts == { k \in 1..Len(rows) :
                       k # changedSelect /\ rows[k].select.value = newValue }
  IN  IF newValue = "" \/ conflicts = {} THEN rows
      ELSE LET conflictingSelect ==
                 CHOOSE k \in conflicts : \A other \in conflicts : k <= other
               usedValues ==
                 { parseInt(rows[k].select.value) :
                     k \in { j \in 1..Len(rows) :
                               /\ j # conflictingSelect
                               /\ j # changedSelect
                               /\ rows[j].select.value # "" } }
               bestP ==
                 CHOOSE p \in 1..(Cardinality(usedValues) + 1) :
                   /\ p \notin usedValues
                   /\ \A q \in 1..(p - 1) : q \in usedValues
           IN  [ rows EXCEPT ![conflictingSelect].select.value =
                   IF bestP <= 10 THEN ToString(bestP) ELSE "" ]

\* The change handler of a select. rows is the table with the changed
\* select already at its new value; changedSelect is its row. allSelects is
\* in row order and find takes the first match; bestP is the least positive
\* integer not in usedValues.
handlePositionChange(rows, changedSelect) ==
  LET newValue == rows[changedSelect].select.value
      conflicts == { k \in 1..Len(rows) :
                       k # changedSelect /\ rows[k].select.value = newValue }
  IN  IF newValue = "" \/ conflicts = {} THEN rows
      ELSE LET conflictingSelect ==
                 CHOOSE k \in conflicts : \A other \in conflicts : k <= other
               usedValues ==
                 { parseInt(rows[k].select.value) :
                     k \in { j \in 1..Len(rows) :
                               /\ j # conflictingSelect
                               /\ rows[j].select.value # "" } }
               bestP ==
                 CHOOSE p \in 1..(Cardinality(usedValues) + 1) :
                   /\ p \notin usedValues
                   /\ \A q \in 1..(p - 1) : q \in usedValues
           IN  [ rows EXCEPT ![conflictingSelect].select.value =
                   IF bestP <= 10 THEN ToString(bestP) ELSE "" ]

\* 1. Gather inputs: one result per row, in row order.
GatheredResults(rows) ==
  [ k \in 1..Len(rows) |->
      calculateDriverResult(
        roster[rows[k].driverIndex],
        IF rows[k].select.value = "" THEN Null
        ELSE parseInt(rows[k].select.value)) ]

\* BASE_DRIVERS.findIndex((d) => d.name === res.name)
OriginalIdx(res) == CHOOSE idx \in 1..3 : roster[idx].name = res.name

\* if (res.finishingPos): null and 0 are falsy.
Truthy(finishingPos) == finishingPos # Null /\ finishingPos # 0

\* The rows updateTable puts in tbody: one per result in ranked order, the
\* select created afresh and set to the result's finishing position.
updateTable(sortedResults, isTie) ==
  [ rankIndex \in 1..Len(sortedResults) |->
      LET res == sortedResults[rankIndex]
      IN  [ driverIndex |-> OriginalIdx(res),
            championRow |-> rankIndex = 1 /\ ~isTie,
            rank        |-> ToString(rankIndex),
            racePts     |-> ToString(res.racePoints),
            finalPts    |-> ToString(res.finalPoints),
            finalWins   |-> ToString(res.finalWins),
            finalPods   |-> ToString(res.finalPodiums),
            select      |->
              [ createPositionSelect(OriginalIdx(res)) EXCEPT !.value =
                  IF Truthy(res.finishingPos) THEN ToString(res.finishingPos)
                  ELSE @ ] ] ]

\* The values updateSummary writes into championSummary.
updateSummary(champion, second, isTie) ==
  IF isTie
    THEN [ badge |-> "Tie", champion |-> champion.name, second |-> second.name,
           finalPoints |-> champion.finalPoints ]
    ELSE [ badge |-> "Champion", champion |-> champion.name,
           finalPoints |-> champion.finalPoints, finalWins |-> champion.finalWins,
           finalPodiums |-> champion.finalPodiums ]

(***************************************************************************)
(* The engine's functions applied to bounded inputs                       *)
(***************************************************************************)

\* Final totals tried in the lists handed to sortStandings: 0..MaxStat.
MaxStat == 1

EnrichedResult(i, stat) ==
  [ id |-> ContenderIds[i], name |-> ContenderNames[i],
    finalPoints |-> stat[1], finalWins |-> stat[2], finalPodiums |-> stat[3] ]

Range(q) == { q[i] : i \in 1..Len(q) }

\* The injective sequences over S.
InjectiveSeqs(S) ==
  UNION { { q \in [1..n -> S] : \A i, j \in 1..n : i # j => q[i] # q[j] } :
          n \in 0..Cardinality(S) }

\* The totals of one enriched result: points, wins, podiums.
Stats == (0..MaxStat) \X (0..MaxStat) \X (0..MaxStat)

\* The list of the results of the contenders who[1], who[2], ... with the
\* totals stats[1], stats[2], ...
ResultList(who, stats) == [k \in 1..Len(who) |-> EnrichedResult(who[k], stats[k])]

\* No call in progress.
Idle == [op |-> "idle"]

InitEngine == roster = DefaultRoster /\ call = Idle /\ PageLoaded

\* The caller takes the returned value; the next call can be made.
Return ==
  /\ call.op # "idle"
  /\ call' = Idle
  /\ UNCHANGED <<roster, tbody, championSummary>>

CalculateDriverResult ==
  /\ call.op = "idle"
  /\ \E i \in 1..3 : \E baseDriver \in BaseDrivers(i) : \E finishingPos \in Finishes :
      /\ call' = [ op |-> "calculateDriverResult", baseDriver |-> baseDriver,
                   finishingPos |-> finishingPos,
                   ret |-> calculateDriverResult(baseDriver, finishingPos) ]
      /\ UNCHANGED <<roster, tbody, championSummary>>

SortStandings ==
  /\ call.op = "idle"
  /\ \E who \in InjectiveSeqs(1..3) : \E stats \in [1..Len(who) -> Stats] :
      /\ call' = [ op |-> "sortStandings", results |-> ResultList(who, stats),
                   ret |-> sortStandings(ResultList(who, stats)) ]
      /\ UNCHANGED <<roster, tbody, championSummary>>

\* const { champion, second, isTie } = determineChampion(sortedResults);
DetermineChampion ==
  /\ call.op = "sortStandings"
  /\ call' = [ op |-> "determineChampion", sortedResults |-> call.ret,
               ret |-> determineChampion(call.ret) ]
  /\ UNCHANGED <<roster, tbody, championSummary>>

NextEngine == CalculateDriverResult \/ SortStandings \/ DetermineChampion \/ Return

SpecEngine == InitEngine /\ [][NextEngine]_vars

(***************************************************************************)
(* The strategy room: the search and the grouping                          *)
(***************************************************************************)

Init == roster \in Rosters /\ call = Idle /\ PageLoaded

\* const scenarios = findWinningScenarios(driverId);
FindWinningScenarios ==
  /\ call.op = "idle"
  /\ \E targetWinnerId \in Range(ContenderIds) :
      /\ call' = [ op |-> "findWinningScenarios", targetWinnerId |-> targetWinnerId,
                   ret |-> findWinningScenarios(targetWinnerId) ]
      /\ UNCHANGED <<roster, tbody, championSummary>>

\* const grouped = groupScenarios(driverId, scenarios); not reached when no
\* scenario was found.
GroupFound ==
  /\ call.op = "findWinningScenarios"
  /\ Len(call.ret) # 0
  /\ call' = [ op |-> "groupScenarios", targetId |-> call.targetWinnerId,
               scenarios |-> call.ret,
               ret |-> groupScenarios(call.targetWinnerId, call.ret) ]
  /\ UNCHANGED <<roster, tbody, championSummary>>

Next == FindWinningScenarios \/ GroupFound \/ Return

Spec == Init /\ [][Next]_vars

(***************************************************************************)
(* groupScenarios applied to bounded scenario lists                        *)
(***************************************************************************)

\* Lists of at most MaxScenarios scenarios, each position one of 2, 10 and
\* the no-points value, no scoring position taken twice in a scenario.
MaxScenarios == 3
TriedPositions == {2, 10, MAX_POS}

ScenarioOf(ids, positions) ==
  [ key \in { PosKey(ids[i]) : i \in 1..3 } |->
      positions[CHOOSE i \in 1..3 : PosKey(ids[i]) = key] ]

NonColliding(positions) ==
  \A i, j \in 1..3 : (i # j /\ positions[i] <= 10) => positions[i] # positions[j]

ScenarioPool ==
  { ScenarioOf(ContenderIds, positions) :
      positions \in { t \in TriedPositions \X TriedPositions \X TriedPositions :
                        NonColliding(t) } }

\* The bucket of the documented example, {(4,5), (5,5), (4,6)} for the two
\* rivals, with the target first.
ExampleBucket(ids) ==
  << ScenarioOf(ids, <<1, 4, 5>>), ScenarioOf(ids, <<1, 5, 5>>),
     ScenarioOf(ids, <<1, 4, 6>>) >>

ExampleIds == { ContenderIds, <<"A", "B", "C">> }

InitGroup == roster = DefaultRoster /\ call = Idle /\ PageLoaded

GroupScenarios ==
  /\ call.op = "idle"
  /\ \E targetId \in Range(ContenderIds) : \E n \in 0..MaxScenarios :
       \E scenarios \in [1..n -> ScenarioPool] :
         /\ call' = [ op |-> "groupScenarios", targetId |-> targetId,
                      scenarios |-> scenarios,
                      ret |-> groupScenarios(targetId, scenarios) ]
         /\ UNCHANGED <<roster, tbody, championSummary>>

\* groupScenarios on the documented example, for the first contender of ids.
GroupExample ==
  /\ call.op = "idle"
  /\ \E ids \in ExampleIds :
       /\ call' = [ op |-> "groupScenarios", targetId |-> ids[1],
                    scenarios |-> ExampleBucket(ids),
                    ret |-> groupScenarios(ids[1], ExampleBucket(ids)) ]
       /\ UNCHANGED <<roster, tbody, championSummary>>

NextGroup ==
  FindWinningScenarios \/ GroupFound \/ GroupScenarios \/ GroupExample \/ Return

SpecGroup == InitGroup /\ [][NextGroup]_vars

(***************************************************************************)
(* The manual simulation table: change, simulate and reset events          *)
(***************************************************************************)

\* The options the user picks: no points, P1..P<MaxChoice> and P10.
MaxChoice == 2

Choices == {""} \cup { ToString(pos) : pos \in (1..MaxChoice) \cup {10} }

InitTable == roster = DefaultRoster /\ call = Idle /\ PageLoaded

\* The user picks another option in the select of one row; the change event
\* runs handlePositionChange.
PositionChange ==
  /\ call.op = "idle"
  /\ \E changedSelect \in 1..Len(tbody) : \E newValue \in Choices :
       /\ newValue # tbody[changedSelect].select.value
       /\ tbody' = handlePositionChange(
                     [tbody EXCEPT ![changedSelect].select.value = newValue],
                     changedSelect)
       /\ call' = [ op |-> "handlePositionChange", changedSelect |-> changedSelect,
                    newValue |-> newValue, before |-> tbody ]
       /\ UNCHANGED <<roster, championSummary>>

\* A click on the simulate button.
RunSimulation ==
  /\ call.op = "idle"
  /\ LET sortedResults == sortStandings(GatheredResults(tbody))
         outcome == determineChampion(sortedResults)
     IN  /\ tbody' = updateTable(sortedResults, outcome.isTie)
         /\ championSummary' =
              updateSummary(outcome.champion, outcome.second, outcome.isTie)
  /\ call' = [ op |-> "runSimulation", before |-> tbody ]
  /\ UNCHANGED roster

\* A click on the reset button.
ResetTable ==
  /\ call.op = "idle"
  /\ tbody' = buildTable
  /\ championSummary' = NoSummary
  /\ call' = [ op |-> "resetTable", before |-> tbody ]
  /\ UNCHANGED roster

NextTable == PositionChange \/ RunSimulation \/ ResetTable \/ Return

SpecTable == InitTable /\ [][NextTable]_vars

(***************************************************************************)
(* Properties of the engine                                                *)
(***************************************************************************)

\* The points table as the documentation states it (25-18-15-12-10-8-6-4-2-1).
StandardPoints == <<25, 18, 15, 12, 10, 8, 6, 4, 2, 1>>

\* C1: calculateDriverResult awards the fixed table value for an integer
\* finish in 1..10 and exactly 0 for null or any integer outside 1..10.
C1_RacePointsFollowTable ==
  call.op = "calculateDriverResult" =>
    call.ret.racePoints =
      IF call.finishingPos \in 1..10 THEN StandardPoints[call.finishingPos] ELSE 0

\* A tenth place scored one point.
C1_Witness ==
  /\ call.op = "calculateDriverResult"
  /\ call.finishingPos = 10
  /\ call.ret.racePoints = 1

\* C2: for every finishing value, final points = points + race points,
\* final wins = wins + 1 iff the finish is 1, and final podiums =
\* podiums + 1 iff the finish is 1, 2 or 3.
C2_FinalTotals ==
  call.op = "calculateDriverResult" =>
    /\ call.ret.finalPoints = call.baseDriver.points + call.ret.racePoints
    /\ call.ret.finalWins =
         call.baseDriver.wins + (IF call.finishingPos = 1 THEN 1 ELSE 0)
    /\ call.ret.finalPodiums =
         call.baseDriver.podiums + (IF call.finishingPos \in {1, 2, 3} THEN 1 ELSE 0)

\* a goes before b in the standings: points, then wins, then podiums, all
\* descending, then name ascending.
RanksBefore(a, b) ==
  \/ a.finalPoints > b.finalPoints
  \/ /\ a.finalPoints = b.finalPoints
     /\ \/ a.finalWins > b.finalWins
        \/ /\ a.finalWins = b.finalWins
           /\ \/ a.finalPodiums > b.finalPodiums
              \/ /\ a.finalPodiums = b.finalPodiums
                 /\ localeCompare(a.name, b.name) < 0

Reorderings(q) ==
  { [k \in 1..Len(q) |-> q[order[k]]] : order \in Permutations(1..Len(q)) }

\* C3: on results with pairwise distinct names sortStandings returns a
\* permutation of its input in which every entry ranks before the next
\* (points, wins, podiums descending, then name ascending), and the same
\* sequence for every order of the same results.
C3_SortIsTotalOrder ==
  call.op = "sortStandings" =>
    /\ Len(call.ret) = Len(call.results)
    /\ Range(call.ret) = Range(call.results)
    /\ \A i \in 1..(Len(call.ret) - 1) : RanksBefore(call.ret[i], call.ret[i + 1])
    /\ \A other \in Reorderings(call.results) : sortStandings(other) = call.ret

\* Three results, the first two given in the wrong name order and equal on
\* points, wins and podiums: the name decided, and the order changed.
C3_Witness ==
  /\ call.op = "sortStandings"
  /\ Len(call.results) = 3
  /\ call.results[1].finalPoints = call.results[2].finalPoints
  /\ call.results[1].finalWins = call.results[2].finalWins
  /\ call.results[1].finalPodiums = call.results[2].finalPodiums
  /\ localeCompare(call.results[1].name, call.results[2].name) > 0
  /\ call.ret # call.results

SameTotals(a, b) ==
  /\ a.finalPoints = b.finalPoints
  /\ a.finalWins = b.finalWins
  /\ a.finalPodiums = b.finalPodiums

\* C4: determineChampion takes entry 0 as champion and entry 1 as second;
\* isTie holds iff there are at least two entries and those two are equal on
\* final points, wins and podiums; with fewer than two entries isTie is
\* false and second is absent.
C4_ChampionAndTie ==
  call.op = "determineChampion" =>
    LET sorted == call.sortedResults
    IN  /\ Len(sorted) >= 1 => call.ret.champion = sorted[1]
        /\ Len(sorted) >= 2 =>
             /\ call.ret.second = sorted[2]
             /\ call.ret.isTie = SameTotals(sorted[1], sorted[2])
        /\ Len(sorted) < 2 =>
             /\ call.ret.second = Absent
             /\ call.ret.isTie = FALSE

\* Three sorted results whose first two were ordered by name alone: a tie.
C4_Witness ==
  /\ call.op = "determineChampion"
  /\ Len(call.sortedResults) = 3
  /\ SameTotals(call.sortedResults[1], call.sortedResults[2])
  /\ call.ret.isTie
  /\ call.ret.champion.name = "Lando Norris"
  /\ call.ret.second.name = "Oscar Piastri"

(***************************************************************************)
(* Properties of the scenario search                                       *)
(***************************************************************************)

\* The positions of a scenario in roster order.
PositionsOf(sc) == << sc.norrisPos, sc.verstappenPos, sc.piastriPos >>

AsScenario(positions) ==
  [ norrisPos |-> positions[1], verstappenPos |-> positions[2],
    piastriPos |-> positions[3] ]

\* The outcome of scoring, ranking and classifying one assignment of
\* positions to the three contenders, 11 scored as no points.
Classified(positions) ==
  determineChampion(sortStandings(
    [ i \in 1..3 |->
        calculateDriverResult(roster[i],
                              IF positions[i] > 10 THEN Null ELSE positions[i]) ]))

\* C5: every scenario returned by findWinningScenarios(target), scored,
\* ranked and classified, has champion.id = target and isTie = false.
C5_ReturnedScenariosWin ==
  call.op = "findWinningScenarios" =>
    \A k \in 1..Len(call.ret) :
      /\ Classified(PositionsOf(call.ret[k])).champion.id = call.targetWinnerId
      /\ ~Classified(PositionsOf(call.ret[k])).isTie

\* Norris has winning scenarios, and nobody scoring is not one of them: it
\* ranks him first with the second level with him on everything.
C5_Witness ==
  /\ call.op = "findWinningScenarios"
  /\ call.targetWinnerId = "norris"
  /\ Len(call.ret) > 0
  /\ Classified(<<11, 11, 11>>).champion.id = "norris"
  /\ Classified(<<11, 11, 11>>).isTie
  /\ AsScenario(<<11, 11, 11>>) \notin Range(call.ret)

\* The final totals of contender i at a position, straight from the rules:
\* table points, a win for first, a podium for the first three.
TotalsAt(i, position) ==
  << roster[i].points
       + (IF position \in 1..10 THEN StandardPoints[position] ELSE 0),
     roster[i].wins + (IF position = 1 THEN 1 ELSE 0),
     roster[i].podiums + (IF position \in 1..3 THEN 1 ELSE 0) >>

\* Totals a are strictly better than totals b: points, then wins, then podiums.
StrictlyAhead(a, b) ==
  \/ a[1] > b[1]
  \/ a[1] = b[1] /\ a[2] > b[2]
  \/ a[1] = b[1] /\ a[2] = b[2] /\ a[3] > b[3]

IndexOfId(id) == CHOOSE i \in 1..3 : ContenderIds[i] = id

\* The target is the sole, untied champion of the assignment.
SoleChampion(targetId, positions) ==
  \A i \in 1..3 :
    i # IndexOfId(targetId) =>
      StrictlyAhead(TotalsAt(IndexOfId(targetId), positions[IndexOfId(targetId)]),
                    TotalsAt(i, positions[i]))

Assignments == (1..MAX_POS) \X (1..MAX_POS) \X (1..MAX_POS)

\* C6: every one of the 11^3 assignments in which no two contenders share a
\* position in 1..10 and the target is the sole, untied champion is in the
\* returned list, exactly once.
C6_SearchIsComplete ==
  call.op = "findWinningScenarios" =>
    /\ \A positions \in Assignments :
         (NonColliding(positions) /\ SoleChampion(call.targetWinnerId, positions))
           => AsScenario(positions) \in Range(call.ret)
    /\ Cardinality(Range(call.ret)) = Len(call.ret)

\* Piastri wins with both rivals at the no-points value, and the list holds
\* that assignment.
C6_Witness ==
  /\ call.op = "findWinningScenarios"
  /\ call.targetWinnerId = "piastri"
  /\ SoleChampion("piastri", <<11, 11, 1>>)
  /\ AsScenario(<<11, 11, 1>>) \in Range(call.ret)

\* C7: no returned scenario gives the same position in 1..10 to two
\* contenders.
C7_NoSharedScoringPosition ==
  call.op = "findWinningScenarios" =>
    \A k \in 1..Len(call.ret) :
      \A i, j \in 1..3 :
        (i # j /\ PositionsOf(call.ret[k])[i] \in 1..10)
          => PositionsOf(call.ret[k])[i] # PositionsOf(call.ret[k])[j]

\* A returned scenario with two contenders at the no-points value, and one
\* with all three in the points.
C7_Witness ==
  /\ call.op = "findWinningScenarios"
  /\ \E k \in 1..Len(call.ret) :
       call.ret[k].verstappenPos = 11 /\ call.ret[k].piastriPos = 11
  /\ \E k \in 1..Len(call.ret) : \A i \in 1..3 : PositionsOf(call.ret[k])[i] <= 10

\* Lexicographic order on triples of positions.
LexLess(a, b) ==
  \/ a[1] < b[1]
  \/ a[1] = b[1] /\ a[2] < b[2]
  \/ a[1] = b[1] /\ a[2] = b[2] /\ a[3] < b[3]

\* The positions of a scenario with the target's first, then the other two
\* contenders' in roster order.
TargetFirst(targetId, sc) ==
  LET t == IndexOfId(targetId)
      others == SelectSeq(<<1, 2, 3>>, LAMBDA i : i # t)
  IN  << PositionsOf(sc)[t], PositionsOf(sc)[others[1]], PositionsOf(sc)[others[2]] >>

\* C8 as stated: for every target the list is ordered by ascending target
\* position first, then by the other two contenders' positions.
C8_OrderedByTargetFirst ==
  call.op = "findWinningScenarios" =>
    \A k \in 1..(Len(call.ret) - 1) :
      LexLess(TargetFirst(call.targetWinnerId, call.ret[k]),
              TargetFirst(call.targetWinnerId, call.ret[k + 1]))

\* C8: for every target the list is in the order of the sweep, ascending by
\* Norris's position, then Verstappen's, then Piastri's, whoever the target
\* is; that is ascending target position first when the target is norris.
C8_OrderedBySweep ==
  call.op = "findWinningScenarios" =>
    /\ \A k \in 1..(Len(call.ret) - 1) :
         LexLess(PositionsOf(call.ret[k]), PositionsOf(call.ret[k + 1]))
    /\ call.targetWinnerId = "norris" =>
         \A k \in 1..(Len(call.ret) - 1) :
           LexLess(TargetFirst("norris", call.ret[k]),
                   TargetFirst("norris", call.ret[k + 1]))

\* Verstappen's list steps back to a better position of his own.
C8_Witness ==
  /\ call.op = "findWinningScenarios"
  /\ call.targetWinnerId = "verstappen"
  /\ \E k \in 1..(Len(call.ret) - 1) :
       call.ret[k + 1].verstappenPos < call.ret[k].verstappenPos

(***************************************************************************)
(* Properties of the grouping                                              *)
(***************************************************************************)

\* The label of a target position: "P<n>" for 1..10, "No Points" for 11.
Label(position) ==
  IF position = 11 THEN "No Points"
  ELSE IF position = 10 THEN "P10"
  ELSE <<"P1", "P2", "P3", "P4", "P5", "P6", "P7", "P8", "P9">>[position]

\* The target positions occurring in the scenarios of a groupScenarios call.
PositionsOccurring ==
  { call.scenarios[k][PosKey(call.targetId)] : k \in 1..Len(call.scenarios) }

\* The n-th smallest element of a set of integers.
NthSmallest(S, n) == CHOOSE p \in S : Cardinality({ q \in S : q < p }) = n - 1

\* C9: groupScenarios emits exactly one group per target position occurring
\* in the list, in ascending numeric order with the no-points value last,
\* labeled "P<n>" or "No Points"; an empty list gives no group.
C9_OneGroupPerPositionAscending ==
  call.op = "groupScenarios" =>
    /\ Len(call.ret) = Cardinality(PositionsOccurring)
    /\ \A k \in 1..Len(call.ret) :
         call.ret[k].position = Label(NthSmallest(PositionsOccurring, k))
    /\ call.scenarios = <<>> => call.ret = <<>>

\* Scenarios given with the target at no points, then tenth, then second
\* come out as the groups P2, P10, No Points.
C9_Witness ==
  /\ call.op = "groupScenarios"
  /\ Len(call.scenarios) = 3
  /\ call.scenarios[1][PosKey(call.targetId)] = 11
  /\ call.scenarios[2][PosKey(call.targetId)] = 10
  /\ call.scenarios[3][PosKey(call.targetId)] = 2
  /\ Len(call.ret) = 3
  /\ call.ret[1].position = "P2"
  /\ call.ret[2].position = "P10"
  /\ call.ret[3].position = "No Points"

\* The contenders the scenarios of the call are about, in their order.
IdsOfCall ==
  IF call.targetId \in Range(ContenderIds) THEN ContenderIds ELSE <<"A", "B", "C">>

\* The rivals of the call's target among them.
RivalsOfCall == SelectSeq(IdsOfCall, LAMBDA id : id # call.targetId)

\* The scenarios of the call with the target at the k-th smallest position.
BucketOfCall(k) ==
  { call.scenarios[j] : j \in { i \in 1..Len(call.scenarios) :
      call.scenarios[i][PosKey(call.targetId)] = NthSmallest(PositionsOccurring, k) } }

\* The best position a contender takes in a set of scenarios.
BestIn(bucket, id) ==
  CHOOSE p \in { sc[PosKey(id)] : sc \in bucket } :
    \A sc \in bucket : p <= sc[PosKey(id)]

\* The displayed name of a contender id.
DisplayName(id) ==
  CASE id = "norris" -> "Norris" [] id = "verstappen" -> "Verstappen"
    [] id = "piastri" -> "Piastri" [] OTHER -> id

Constraint(bucket, id) ==
  DisplayName(id) \o " finishes " \o Label(BestIn(bucket, id)) \o " or lower"

\* C10 as stated: every description is one constraint per rival of the
\* target, on the best position of that rival in the bucket, joined with
\* " AND "; the documented example reads "B finishes P4 or lower AND
\* C finishes P5 or lower".
C10_JoinedWithAnd ==
  call.op = "groupScenarios" =>
    /\ \A k \in 1..Len(call.ret) :
         call.ret[k].description =
           Constraint(BucketOfCall(k), RivalsOfCall[1]) \o " AND "
             \o Constraint(BucketOfCall(k), RivalsOfCall[2])
    /\ (call.targetId = "A" /\ call.scenarios = ExampleBucket(<<"A", "B", "C">>)) =>
         call.ret[1].description = "B finishes P4 or lower AND C finishes P5 or lower"

\* C10: for a target among norris, verstappen and piastri every description
\* is one constraint per other contender of that list, in list order, on the
\* best position of that contender in the bucket, the name capitalised,
\* joined with " AND <br>"; the documented example, for target norris,
\* reads "Verstappen finishes P4 or lower AND <br>Piastri finishes P5 or
\* lower".
C10_JoinedWithAndBreak ==
  (call.op = "groupScenarios" /\ call.targetId \in Range(ContenderIds)) =>
    /\ \A k \in 1..Len(call.ret) :
         call.ret[k].description =
           Constraint(BucketOfCall(k), RivalsOfCall[1]) \o " AND <br>"
             \o Constraint(BucketOfCall(k), RivalsOfCall[2])
    /\ (call.targetId = "norris" /\ call.scenarios = ExampleBucket(ContenderIds)) =>
         call.ret[1].description =
           "Verstappen finishes P4 or lower AND <br>Piastri finishes P5 or lower"

\* The documented example for target norris: the best positions are not
\* those of one scenario.
C10_Witness ==
  /\ call.op = "groupScenarios"
  /\ call.targetId = "norris"
  /\ call.scenarios = ExampleBucket(ContenderIds)
  /\ Len(call.ret) = 1
  /\ call.ret[1].description =
       "Verstappen finishes P4 or lower AND <br>Piastri finishes P5 or lower"


(***************************************************************************)
(* The groups against the search                                           *)
(***************************************************************************)

\* The index in the roster of the call's target, and of its two rivals in the
\* order of the descriptions.
TargetOfCall == IndexOfId(call.targetId)

RivalIndexes == SelectSeq(<<1, 2, 3>>, LAMBDA i : i # TargetOfCall)

\* The target position a group is labeled with.
PositionOfGroup(group) == CHOOSE q \in 1..MAX_POS : Label(q) = group.position

\* The positions a group's description states for the two rivals, read back
\* from its text.
StatedPositions(group) ==
  CHOOSE p \in (1..MAX_POS) \X (1..MAX_POS) :
    group.description =
      DisplayName(ContenderIds[RivalIndexes[1]]) \o " finishes " \o Label(p[1])
        \o " or lower AND <br>"
        \o DisplayName(ContenderIds[RivalIndexes[2]]) \o " finishes " \o Label(p[2])
        \o " or lower"

\* The assignment with the call's target at position own and its rivals at
\* the positions first and second.
AssignmentOf(own, first, second) ==
  [ i \in 1..3 |-> IF i = TargetOfCall THEN own
                   ELSE IF i = RivalIndexes[1] THEN first ELSE second ]

\* C11: the groups of groupScenarios(target, findWinningScenarios(target))
\* describe exactly the winning results: a non-colliding assignment of
\* positions 1..11 has the target as sole champion if and only if there is a
\* group for the target's position and each rival's position is equal to or
\* worse than the one the group states for that rival.  (Every list grouped
\* in this specification is the one the search returned for the target.)
C11_GroupsDescribeWinningResults ==
  call.op = "groupScenarios" =>
    /\ \A k \in 1..Len(call.ret) :
         LET own == PositionOfGroup(call.ret[k])
             stated == StatedPositions(call.ret[k])
         IN  \A first, second \in 1..MAX_POS :
               NonColliding(AssignmentOf(own, first, second)) =>
                 (SoleChampion(call.targetId, AssignmentOf(own, first, second))
                    <=> (first >= stated[1] /\ second >= stated[2]))
    /\ \A own \in 1..MAX_POS :
         (\A k \in 1..Len(call.ret) : call.ret[k].position # Label(own)) =>
           \A first, second \in 1..MAX_POS :
             NonColliding(AssignmentOf(own, first, second)) =>
               ~SoleChampion(call.targetId, AssignmentOf(own, first, second))

\* Norris's groups: one states a position for Verstappen that is neither
\* first nor the no-points value; Verstappen one place better loses Norris
\* the title, and the target positions without a group exist.
C11_Witness ==
  /\ call.op = "groupScenarios"
  /\ call.targetId = "norris"
  /\ call.scenarios = findWinningScenarios("norris")
  /\ Len(call.ret) < MAX_POS
  /\ \E k \in 1..Len(call.ret) :
       LET own == PositionOfGroup(call.ret[k])
           stated == StatedPositions(call.ret[k])
       IN  /\ stated[1] \in 2..10
           /\ NonColliding(<<own, stated[1], MAX_POS>>)
           /\ SoleChampion("norris", <<own, stated[1], MAX_POS>>)
           /\ NonColliding(<<own, stated[1] - 1, MAX_POS>>)
           /\ ~SoleChampion("norris", <<own, stated[1] - 1, MAX_POS>>)


(***************************************************************************)
(* The shape of the winning sets                                           *)
(***************************************************************************)

\* positions with contender i moved to position q.
Moved(positions, i, q) == [positions EXCEPT ![i] = q]

\* C12: winning scenarios are monotone in a rival's position: in every
\* scenario returned for a target, replacing one rival's position P by any
\* worse position in P+1..11 that does not collide with another contender's
\* scoring position, the other two positions unchanged, gives a scenario of
\* the returned list again.
C12_MonotoneInRivalPosition ==
  call.op = "findWinningScenarios" =>
    LET won == Range(call.ret)
    IN  \A sc \in won :
          \A i \in 1..3 :
            i # IndexOfId(call.targetWinnerId) =>
              \A q \in (PositionsOf(sc)[i] + 1)..MAX_POS :
                NonColliding(Moved(PositionsOf(sc), i, q)) =>
                  AsScenario(Moved(PositionsOf(sc), i, q)) \in won

\* Verstappen wins from second with Norris fifth and Piastri seventh, and
\* still with Norris sixth or out of the points; Norris seventh collides
\* with Piastri and is not in the list; Norris fourth takes the title from
\* Verstappen.
C12_Witness ==
  /\ call.op = "findWinningScenarios"
  /\ call.targetWinnerId = "verstappen"
  /\ AsScenario(<<5, 2, 7>>) \in Range(call.ret)
  /\ AsScenario(<<6, 2, 7>>) \in Range(call.ret)
  /\ AsScenario(<<11, 2, 7>>) \in Range(call.ret)
  /\ AsScenario(<<7, 2, 7>>) \notin Range(call.ret)
  /\ AsScenario(<<4, 2, 7>>) \notin Range(call.ret)


\* The winning sets of the three targets: the list returned to the call in
\* progress for its target, and the lists the search returns for the others.
WinningSets ==
  [ i \in 1..3 |->
      IF ContenderIds[i] = call.targetWinnerId THEN Range(call.ret)
      ELSE Range(findWinningScenarios(ContenderIds[i])) ]

\* The two top-ranked contenders of an assignment are level on final
\* points, wins and podiums: two contenders have the same totals and nobody
\* is strictly ahead of them.
TopTwoTied(positions) ==
  \E i, j \in 1..3 :
    /\ i # j
    /\ TotalsAt(i, positions[i]) = TotalsAt(j, positions[j])
    /\ \A k \in 1..3 :
         ~StrictlyAhead(TotalsAt(k, positions[k]), TotalsAt(i, positions[i]))

\* C14: for every roster the winning sets of the three targets are pairwise
\* disjoint, and every non-colliding assignment of positions 1..11 is in
\* exactly one of them, unless its two top-ranked contenders are tied on
\* final points, wins and podiums, and then it is in none.  (Stated where
\* the search has returned for the first contender; every roster has that
\* state, and the three sets do not depend on which call is in progress.)
C14_WinningSetsPartition ==
  (call.op = "findWinningScenarios" /\ call.targetWinnerId = ContenderIds[1]) =>
    \A sets \in {WinningSets} :
      /\ \A i, j \in 1..3 : i # j => sets[i] \cap sets[j] = {}
      /\ \A positions \in Assignments :
           NonColliding(positions) =>
             Cardinality({ i \in 1..3 : AsScenario(positions) \in sets[i] })
               = IF TopTwoTied(positions) THEN 0 ELSE 1

\* Norris and Verstappen start level and Piastri behind: with nobody
\* scoring the top two are tied and the assignment is in no set; the three
\* sets are not empty, and Verstappen second ahead of Norris third is in
\* Verstappen's alone.
C14_Witness ==
  /\ call.op = "findWinningScenarios"
  /\ call.targetWinnerId = ContenderIds[1]
  /\ roster = DefaultRoster
  /\ TopTwoTied(<<11, 11, 11>>)
  /\ ~TopTwoTied(<<3, 2, 11>>)
  /\ \E sets \in {WinningSets} :
       /\ \A i \in 1..3 : AsScenario(<<11, 11, 11>>) \notin sets[i]
       /\ \A i \in 1..3 : sets[i] # {}
       /\ AsScenario(<<3, 2, 11>>) \in sets[2]
       /\ AsScenario(<<3, 2, 11>>) \notin sets[1] \cup sets[3]

(***************************************************************************)
(* Properties of the manual simulation table                               *)
(***************************************************************************)

\* The position values the selects of some rows hold.
Held(rows, among) ==
  { rows[k].select.value : k \in among } \ {""}

\* The option of the lowest position in 1..10 not among the held values; no
\* points if every one of them is held.
LowestFree(held) ==
  IF \A p \in 1..10 : ToString(p) \in held THEN ""
  ELSE ToString(CHOOSE p \in 1..10 :
                  /\ ToString(p) \notin held
                  /\ \A q \in 1..(p - 1) : ToString(q) \in held)

\* The rows other than the changed one that held the new value of a change
\* event before it.
ConflictingRows ==
  { k \in 1..Len(call.before) :
      /\ k # call.changedSelect
      /\ call.newValue # ""
      /\ call.before[k].select.value = call.newValue }

\* C13: from the freshly built table, after any sequence of position
\* changes, simulate clicks and reset clicks, no two selects hold the same
\* position in 1..10; after a change that created a conflict the changed
\* select holds the new value, exactly one conflicting select is altered and
\* holds the lowest position in 1..10 that no other select holds (no points
\* if none is free), and every other row is as before.
C13_NoTwoSelectsShareAPosition ==
  /\ \A j, k \in 1..Len(tbody) :
       (j # k /\ tbody[j].select.value # "")
         => tbody[j].select.value # tbody[k].select.value
  /\ \A k \in 1..Len(tbody) : tbody[k].select.value \in Options
  /\ (call.op = "handlePositionChange" /\ ConflictingRows # {}) =>
       \E conflicting \in ConflictingRows :
         /\ tbody[call.changedSelect] =
              [ call.before[call.changedSelect] EXCEPT !.select.value = call.newValue ]
         /\ tbody[conflicting] =
              [ call.before[conflicting] EXCEPT !.select.value =
                  LowestFree(Held(tbody, (1..Len(tbody)) \ {conflicting})) ]
         /\ tbody[conflicting].select.value # call.newValue
         /\ \A k \in 1..Len(tbody) :
              k \notin {call.changedSelect, conflicting} => tbody[k] = call.before[k]

\* After a simulation has reordered the rows, a pick of P1 in a row below
\* the one holding P1, with P2 held by the third row, has moved the
\* holder of P1 to P3.
C13_Witness ==
  /\ call.op = "handlePositionChange"
  /\ call.newValue = "1"
  /\ call.before[1].driverIndex # 1
  /\ call.before[1].rank = "1"
  /\ call.before[1].select.value = "1"
  /\ call.changedSelect = 3
  /\ tbody[1].select.value = "3"
  /\ tbody[2].select.value = "2"
  /\ tbody[3].select.value = "1"

=============================================================================
